---- MODULE Spec2Model ----
(***************************************************************************)
(* A model of the RLP codec of defiweb/go-rlp (rlp.go and the item types). *)
(*                                                                         *)
(* Bytes are the integers 0..255 and a Go []byte is a sequence of them.    *)
(* A uint64 is kept as its eight big-endian bytes (most significant        *)
(* first), so the shifts, truncations and comparisons of the code are      *)
(* computed at their real width.  int is taken to be 64 bits wide.         *)
(* Go values that are addressed through pointers (the decode targets, the  *)
(* list items) live in a heap: a sequence of objects, a pointer being an   *)
(* index into it.  A []byte produced by slicing the decoder's input is     *)
(* kept as the pair of offsets into the input buffer, as Go keeps it.      *)
(***************************************************************************)
EXTENDS Integers, Sequences, FiniteSets, TLC

VARIABLES heap, srcId, dstId, wire, werr, input, mode, ret, heap0, pc

vars == <<heap, srcId, dstId, wire, werr, input, mode, ret, heap0, pc>>

(***************************************************************************)
(* Errors and constants of rlp.go.                                         *)
(***************************************************************************)
NoErr == "nil"
ErrUnsupportedType == "rlp: unsupported type"
ErrUnexpectedEndOfData == "rlp: unexpected end of data"
ErrTooLarge == "rlp: value too large"
Panic == "panic: index out of range"
PanicSlice == "panic: slice bounds out of range"
\* the error of an item whose EncodeRLP and DecodeRLP always fail
ErrItemFails == "error"

stringOffset == 128
listOffset == 192
singleByteMax == 127
shortStringMax == 183
longStringMax == 191
shortListMax == 247

(***************************************************************************)
(* Go slices: s[lo:hi], s[lo:], s[:hi] with 0-based offsets.               *)
(***************************************************************************)
Slice(s, lo, hi) == SubSeq(s, lo + 1, hi)
SliceFrom(s, lo) == SubSeq(s, lo + 1, Len(s))
Rep(n, b) == [i \in 1..n |-> b]

(***************************************************************************)
(* uint64 as eight big-endian bytes.                                       *)
(***************************************************************************)
Zero64 == Rep(8, 0)
\* uint64(n) of a non-negative int that fits 31 bits (every len() here).
U64(n) ==
    << 0, 0, 0, 0,
       (n \div 16777216) % 256, (n \div 65536) % 256, (n \div 256) % 256, n % 256 >>
\* a uint64 small enough to be compared with a len() as an integer
IsSmall(w) == w[1] = 0 /\ w[2] = 0 /\ w[3] = 0 /\ w[4] = 0 /\ w[5] < 128
ToInt(w) == ((w[5] * 256 + w[6]) * 256 + w[7]) * 256 + w[8]
\* i < 1<<(8*k): the leading 8-k bytes are zero
LessPow(w, k) == \A j \in 1..(8 - k) : w[j] = 0
\* byte(i >> (8*k))
ByteShr(w, k) == w[8 - k]
\* i <= c for a constant c < 256
LeqByte(w, c) == LessPow(w, 1) /\ w[8] <= c
\* w + k (mod 2^64) for 0 <= k < 256
RECURSIVE AddCarry(_, _, _)
AddCarry(w, j, c) ==
    IF j = 0 \/ c = 0 THEN w
    ELSE AddCarry([w EXCEPT ![j] = (w[j] + c) % 256], j - 1, (w[j] + c) \div 256)
Add64(w, k) == AddCarry(w, 8, k)
\* w >= math.MaxInt (2^63-1)
GeqMaxInt(w) == w[1] > 127 \/ (w[1] = 127 /\ \A j \in 2..8 : w[j] = 255)
\* n < int(w) and n > int(w) for a len() n and a w below math.MaxInt
IntLess(n, w) == IF IsSmall(w) THEN n < ToInt(w) ELSE TRUE
IntGreater(n, w) == IF IsSmall(w) THEN n > ToInt(w) ELSE FALSE

(***************************************************************************)
(* writeInt and readInt.                                                   *)
(***************************************************************************)
\* writeInt(b, i): stores the k significant bytes of i into b[0..k-1], in
\* the order of the code, and returns k; panics when b is shorter than k.
writeIntLen(i) ==
    IF LessPow(i, 1) THEN 1
    ELSE IF LessPow(i, 2) THEN 2
    ELSE IF LessPow(i, 3) THEN 3
    ELSE IF LessPow(i, 4) THEN 4
    ELSE IF LessPow(i, 5) THEN 5
    ELSE IF LessPow(i, 6) THEN 6
    ELSE IF LessPow(i, 7) THEN 7
    ELSE 8

\* writeInt storing the least significant byte first
writeInt_LittleEndian(b, i) ==
    LET k == writeIntLen(i) IN
    IF Len(b) < k
    THEN [b |-> b, n |-> 0, panic |-> TRUE]
    ELSE [b |-> [j \in 1..Len(b) |-> IF j <= k THEN ByteShr(i, j - 1) ELSE b[j]],
          n |-> k, panic |-> FALSE]

writeInt(b, i) ==
    LET k == writeIntLen(i) IN
    IF Len(b) < k
    THEN [b |-> b, n |-> 0, panic |-> TRUE]
    ELSE [b |-> [j \in 1..Len(b) |-> IF j <= k THEN ByteShr(i, k - j) ELSE b[j]],
          n |-> k, panic |-> FALSE]

\* readInt reporting ErrTooLarge where the data is too short
readInt_WrongError(data, length) ==
    IF Len(data) < length
    THEN [v |-> Zero64, err |-> ErrTooLarge]
    ELSE IF length <= 8
    THEN [v |-> [j \in 1..8 |-> IF j <= 8 - length THEN 0 ELSE data[j - (8 - length)]],
          err |-> NoErr]
    ELSE [v |-> Zero64, err |-> ErrTooLarge]

\* readInt(data, length): length is a uint8.
readInt(data, length) ==
    IF Len(data) < length
    THEN [v |-> Zero64, err |-> ErrUnexpectedEndOfData]
    ELSE IF length <= 8
    THEN [v |-> [j \in 1..8 |-> IF j <= 8 - length THEN 0 ELSE data[j - (8 - length)]],
          err |-> NoErr]
    ELSE [v |-> Zero64, err |-> ErrTooLarge]

(***************************************************************************)
(* encodePrefix and decodePrefix.                                          *)
(***************************************************************************)
\* the long form of encodePrefix, after writeInt(prefix[1:], length) has
\* returned w
encodePrefixLong(offset, w) ==
    IF w.panic THEN [out |-> <<>>, err |-> Panic]
    ELSE IF w.n >= 8 THEN [out |-> <<>>, err |-> ErrTooLarge]
    ELSE [out |-> << (offset + w.n + 55) % 256 >> \o Slice(w.b, 0, w.n), err |-> NoErr]

\* encodePrefix with the short form up to 56 bytes
encodePrefix_Short56(length, offset) ==
    IF LeqByte(length, 56)
    THEN [out |-> << (offset + ByteShr(length, 0)) % 256 >>, err |-> NoErr]
    ELSE encodePrefixLong(offset, writeInt(SliceFrom(Rep(8, 0), 1), length))

encodePrefix(length, offset) ==
    IF LeqByte(length, 55)
    THEN [out |-> << (offset + ByteShr(length, 0)) % 256 >>, err |-> NoErr]
    ELSE encodePrefixLong(offset, writeInt(SliceFrom(Rep(8, 0), 1), length))

PrefixFail(e) == [offset |-> 0, dataLen |-> Zero64, prefixLen |-> 0, err |-> e]

\* the long form of decodePrefix not counting the first byte in prefixLen
decodePrefixLong_NoFirst(prefix, bytesLen, offset) ==
    LET r == readInt(SliceFrom(prefix, 1), bytesLen) IN
    IF r.err # NoErr THEN PrefixFail(r.err)
    ELSE IF bytesLen >= 8 THEN PrefixFail(ErrTooLarge)
    ELSE [offset |-> offset, dataLen |-> r.v, prefixLen |-> bytesLen, err |-> NoErr]

decodePrefixLong(prefix, bytesLen, offset) ==
    LET r == readInt(SliceFrom(prefix, 1), bytesLen) IN
    IF r.err # NoErr THEN PrefixFail(r.err)
    ELSE IF bytesLen >= 8 THEN PrefixFail(ErrTooLarge)
    ELSE [offset |-> offset, dataLen |-> r.v, prefixLen |-> 1 + bytesLen, err |-> NoErr]

decodePrefixSwitch(prefix) ==
    LET cur == prefix[1] IN
    IF cur <= singleByteMax
    THEN [offset |-> stringOffset, dataLen |-> U64(1), prefixLen |-> 0, err |-> NoErr]
    ELSE IF cur <= shortStringMax
    THEN [offset |-> stringOffset, dataLen |-> U64(cur - stringOffset),
          prefixLen |-> 1, err |-> NoErr]
    ELSE IF cur <= longStringMax
    THEN decodePrefixLong(prefix, cur - shortStringMax, stringOffset)
    ELSE IF cur <= shortListMax
    THEN [offset |-> listOffset, dataLen |-> U64(cur - listOffset),
          prefixLen |-> 1, err |-> NoErr]
    ELSE decodePrefixLong(prefix, cur - shortListMax, listOffset)

\* the check of decodePrefix on the header p its switch has read
decodePrefixCheck(p) ==
    IF p.err # NoErr THEN p
    ELSE IF GeqMaxInt(Add64(p.dataLen, p.prefixLen)) THEN PrefixFail(ErrTooLarge)
    ELSE p

decodePrefix(prefix) ==
    IF Len(prefix) = 0 THEN PrefixFail(ErrUnexpectedEndOfData)
    ELSE decodePrefixCheck(decodePrefixSwitch(prefix))

(***************************************************************************)
(* encodeBytes and decodeBytes.                                            *)
(***************************************************************************)
\* the payload src after the prefix p that encodePrefix has returned
encodeFramed(p, src) ==
    IF p.err # NoErr THEN [out |-> <<>>, err |-> p.err]
    ELSE [out |-> p.out \o src, err |-> NoErr]

\* encodeBytes with the single-byte case taken for src[0] <= 0x80
encodeBytes_SingleLeq(src) ==
    IF Len(src) = 0 THEN [out |-> << stringOffset >>, err |-> NoErr]
    ELSE IF Len(src) = 1 /\ src[1] <= stringOffset THEN [out |-> << src[1] >>, err |-> NoErr]
    ELSE encodeFramed(encodePrefix(U64(Len(src)), stringOffset), src)

\* encodeBytes with every single byte taken verbatim
encodeBytes_AnySingle(src) ==
    IF Len(src) = 0 THEN [out |-> << stringOffset >>, err |-> NoErr]
    ELSE IF Len(src) = 1 THEN [out |-> << src[1] >>, err |-> NoErr]
    ELSE encodeFramed(encodePrefix(U64(Len(src)), stringOffset), src)

encodeBytes(src) ==
    IF Len(src) = 0 THEN [out |-> << stringOffset >>, err |-> NoErr]
    ELSE IF Len(src) = 1 /\ src[1] < stringOffset THEN [out |-> << src[1] >>, err |-> NoErr]
    ELSE encodeFramed(encodePrefix(U64(Len(src)), stringOffset), src)

\* decodeBytes(src, dst): on success *dst = src[lo:hi] (nil when isnil) and
\* n bytes were read; on failure *dst is not assigned.
BytesFail(e) == [n |-> 0, err |-> e, lo |-> 0, hi |-> 0, isnil |-> FALSE]

\* the prefixed case of decodeBytes with *dst = src[:totalLen], the prefix
\* kept in the value
decodeBytesPrefixed_WithPrefix(src, p) ==
    LET totalLen == Add64(p.dataLen, p.prefixLen) IN
    IF p.err # NoErr THEN BytesFail(p.err)
    ELSE IF p.offset # stringOffset THEN BytesFail(ErrUnsupportedType)
    ELSE IF IntLess(Len(src), totalLen) THEN BytesFail(ErrUnexpectedEndOfData)
    ELSE [n |-> ToInt(totalLen), err |-> NoErr,
          lo |-> 0, hi |-> ToInt(totalLen), isnil |-> FALSE]

\* the prefixed case of decodeBytes, after decodePrefix(src) has returned p
decodeBytesPrefixed(src, p) ==
    LET totalLen == Add64(p.dataLen, p.prefixLen) IN
    IF p.err # NoErr THEN BytesFail(p.err)
    ELSE IF p.offset # stringOffset THEN BytesFail(ErrUnsupportedType)
    ELSE IF IntLess(Len(src), totalLen) THEN BytesFail(ErrUnexpectedEndOfData)
    ELSE [n |-> ToInt(totalLen), err |-> NoErr,
          lo |-> p.prefixLen, hi |-> ToInt(totalLen), isnil |-> FALSE]

\* decodeBytes taking the payload up to the end of src
decodeBytes_ToEnd(src) ==
    LET r == decodeBytesPrefixed(src, decodePrefix(src)) IN
    IF Len(src) = 0 THEN BytesFail(ErrUnexpectedEndOfData)
    ELSE IF src[1] = stringOffset
    THEN [n |-> 1, err |-> NoErr, lo |-> 0, hi |-> 0, isnil |-> TRUE]
    ELSE IF src[1] < stringOffset
    THEN [n |-> 1, err |-> NoErr, lo |-> 0, hi |-> 1, isnil |-> FALSE]
    ELSE IF r.err # NoErr THEN r
    ELSE [r EXCEPT !.hi = Len(src)]

\* decodeBytes without the check of the item's family
decodeBytes_NoFamily(src) ==
    LET p == decodePrefix(src) IN
    IF Len(src) = 0 THEN BytesFail(ErrUnexpectedEndOfData)
    ELSE IF src[1] = stringOffset
    THEN [n |-> 1, err |-> NoErr, lo |-> 0, hi |-> 0, isnil |-> TRUE]
    ELSE IF src[1] < stringOffset
    THEN [n |-> 1, err |-> NoErr, lo |-> 0, hi |-> 1, isnil |-> FALSE]
    ELSE decodeBytesPrefixed(src, [p EXCEPT !.offset = stringOffset])

decodeBytes(src) ==
    IF Len(src) = 0 THEN BytesFail(ErrUnexpectedEndOfData)
    ELSE IF src[1] = stringOffset
    THEN [n |-> 1, err |-> NoErr, lo |-> 0, hi |-> 0, isnil |-> TRUE]
    ELSE IF src[1] < stringOffset
    THEN [n |-> 1, err |-> NoErr, lo |-> 0, hi |-> 1, isnil |-> FALSE]
    ELSE decodeBytesPrefixed(src, decodePrefix(src))

(***************************************************************************)
(* Items.  An object of the heap is one Go value of an item type:          *)
(*   String, Bytes, Uint, BigInt, RLP, List, TypedList[elem], and Other    *)
(*   for a value that implements neither Encoder nor Decoder.              *)
(* b holds owned bytes; ref, when not empty, is <<lo, hi>>: the value is   *)
(* the slice input[lo:hi] of the decoder's input buffer.  u is a uint64,   *)
(* neg the sign of a big.Int whose magnitude is b, items the pointers of   *)
(* a list.                                                                 *)
(***************************************************************************)
Obj(kind, b, u, neg, items, elem) ==
    [kind |-> kind, b |-> b, ref |-> <<>>, u |-> u, neg |-> neg,
     items |-> items, elem |-> elem]

NewString(s) == Obj("String", s, Zero64, FALSE, <<>>, "")
NewBytes(s) == Obj("Bytes", s, Zero64, FALSE, <<>>, "")
NewUint(w) == Obj("Uint", <<>>, w, FALSE, <<>>, "")
NewBigInt(neg, mag) == Obj("BigInt", mag, Zero64, neg, <<>>, "")
NewRLP(s) == Obj("RLP", s, Zero64, FALSE, <<>>, "")
NewList(items) == Obj("List", <<>>, Zero64, FALSE, items, "RLP")
NewTypedList(elem, items) == Obj("TypedList", <<>>, Zero64, FALSE, items, elem)
NewOther == Obj("Other", <<>>, Zero64, FALSE, <<>>, "")
\* an item of a type of the caller whose EncodeRLP and DecodeRLP always fail
NewErrItem == Obj("ErrItem", <<>>, Zero64, FALSE, <<>>, "")
\* items of types of the caller whose DecodeRLP returns no error and a
\* count of its own: 0, len(data)+1, or -1
SaysKinds == {"SaysZero", "SaysOver", "SaysNegative"}
NewSays(kind) == Obj(kind, <<>>, Zero64, FALSE, <<>>, "")

\* new(T)
ZeroOf(kind) ==
    CASE kind = "String" -> NewString(<<>>)
      [] kind = "Bytes" -> NewBytes(<<>>)
      [] kind = "Uint" -> NewUint(Zero64)
      [] kind = "BigInt" -> NewBigInt(FALSE, <<>>)
      [] kind = "RLP" -> NewRLP(<<>>)
      [] kind = "List" -> NewList(<<>>)
      [] kind \in SaysKinds -> NewSays(kind)
      [] OTHER -> NewOther

\* the bytes of a String, Bytes, RLP or big.Int magnitude
Content(o, inp) == IF o.ref = <<>> THEN o.b ELSE Slice(inp, o.ref[1], o.ref[2])

\* big.Int.SetBytes / big.Int.Bytes: the magnitude without leading zero bytes
RECURSIVE StripZeros(_)
StripZeros(s) == IF Len(s) > 0 /\ s[1] = 0 THEN StripZeros(Tail(s)) ELSE s

(***************************************************************************)
(* Encoding.                                                               *)
(***************************************************************************)
encodeString(src) == encodeBytes(src)

\* encodeUint without the case of zero
encodeUint_NoZero(src) ==
    LET w == writeInt(Rep(8, 0), src) IN encodeBytes(Slice(w.b, 0, w.n))

encodeUint(src) ==
    IF src = Zero64 THEN [out |-> << stringOffset >>, err |-> NoErr]
    ELSE LET w == writeInt(Rep(8, 0), src) IN encodeBytes(Slice(w.b, 0, w.n))

encodeBigInt(neg, mag) ==
    IF Len(mag) = 0 THEN [out |-> << stringOffset >>, err |-> NoErr]
    ELSE encodeBytes(mag)

RECURSIVE EncodeRLP(_, _, _)
RECURSIVE encodeTypedListLoop(_, _, _, _, _)
RECURSIVE encodeTypedListItem(_, _, _, _, _, _)

\* the loop of encodeTypedList going on after an item has failed
encodeTypedListItem_SkipError(h, inp, items, i, buf, r) ==
    encodeTypedListLoop(h, inp, items, i + 1, buf \o r.out)

\* the loop of encodeTypedList writing each item before the earlier ones
encodeTypedListItem_Prepend(h, inp, items, i, buf, r) ==
    IF r.err # NoErr THEN [out |-> <<>>, err |-> r.err]
    ELSE encodeTypedListLoop(h, inp, items, i + 1, r.out \o buf)

\* one round of the loop of encodeTypedList, after the item's EncodeRLP has
\* returned r
encodeTypedListItem(h, inp, items, i, buf, r) ==
    IF r.err # NoErr THEN [out |-> <<>>, err |-> r.err]
    ELSE encodeTypedListLoop(h, inp, items, i + 1, buf \o r.out)

\* encodeTypedList framing the payload by the number of items, not of bytes
encodeTypedListLoop_CountItems(h, inp, items, i, buf) ==
    IF i > Len(items)
    THEN encodeFramed(encodePrefix(U64(Len(items)), listOffset), buf)
    ELSE IF h[items[i]].kind = "Other" THEN [out |-> <<>>, err |-> ErrUnsupportedType]
    ELSE encodeTypedListItem(h, inp, items, i, buf, EncodeRLP(h, inp, items[i]))

\* the loop of encodeTypedList from the item i on, and the framing after it
encodeTypedListLoop(h, inp, items, i, buf) ==
    IF i > Len(items)
    THEN encodeFramed(encodePrefix(U64(Len(buf)), listOffset), buf)
    ELSE IF h[items[i]].kind = "Other" THEN [out |-> <<>>, err |-> ErrUnsupportedType]
    ELSE encodeTypedListItem(h, inp, items, i, buf, EncodeRLP(h, inp, items[i]))

\* the items (by index, from i on) whose EncodeRLP the loop of
\* encodeTypedList calls
RECURSIVE encodeTypedListCalls(_, _, _, _)
encodeTypedListCalls(h, inp, items, i) ==
    IF i > Len(items) \/ h[items[i]].kind = "Other" THEN <<>>
    ELSE IF EncodeRLP(h, inp, items[i]).err # NoErr THEN << i >>
    ELSE << i >> \o encodeTypedListCalls(h, inp, items, i + 1)

encodeTypedList(h, inp, items) == encodeTypedListLoop(h, inp, items, 1, <<>>)

encodeList(h, inp, items) == encodeTypedList(h, inp, items)

EncodeRLP(h, inp, id) ==
    LET o == h[id] IN
    CASE o.kind = "String" -> encodeString(Content(o, inp))
      [] o.kind = "Bytes" -> encodeBytes(Content(o, inp))
      [] o.kind = "Uint" -> encodeUint(o.u)
      [] o.kind = "BigInt" -> encodeBigInt(o.neg, o.b)
      [] o.kind = "RLP" -> [out |-> Content(o, inp), err |-> NoErr]
      [] o.kind = "List" -> encodeList(h, inp, o.items)
      [] o.kind = "TypedList" -> encodeTypedList(h, inp, o.items)
      [] o.kind = "ErrItem" -> [out |-> <<>>, err |-> ErrItemFails]
      [] OTHER -> [out |-> <<>>, err |-> ErrUnsupportedType]

(***************************************************************************)
(* Decoding.  src is the slice handed to DecodeRLP and base its offset in  *)
(* the input buffer (src = input[base:...]).  The result is the heap after *)
(* the call, the count and the error.                                      *)
(***************************************************************************)
Dec(h, n, err) == [heap |-> h, n |-> n, err |-> err]

\* the assignments of the scalar decoders, after decodeBytes has returned r
decodeStringInto(h, id, src, r) ==
    IF r.err # NoErr THEN Dec(h, 0, r.err)
    ELSE Dec([h EXCEPT ![id].b = Slice(src, r.lo, r.hi), ![id].ref = <<>>], r.n, NoErr)

decodeString(h, id, src) == decodeStringInto(h, id, src, decodeBytes(src))

decodeBytesAlias(h, id, base, r) ==
    IF r.err # NoErr THEN Dec(h, 0, r.err)
    ELSE IF r.isnil THEN Dec([h EXCEPT ![id].b = <<>>, ![id].ref = <<>>], r.n, NoErr)
    ELSE Dec([h EXCEPT ![id].b = <<>>, ![id].ref = << base + r.lo, base + r.hi >>],
             r.n, NoErr)

decodeBytesInto(h, id, src, base) == decodeBytesAlias(h, id, base, decodeBytes(src))

\* decodeUint after readInt has returned v
decodeUintValue(h, id, n, v) ==
    IF v.err # NoErr THEN Dec(h, 0, v.err)
    ELSE Dec([h EXCEPT ![id].u = v.v], n, NoErr)

\* decodeUint refusing a payload that starts with a zero byte
decodeUintBytes_Canonical(h, id, src, r) ==
    LET b == Slice(src, r.lo, r.hi) IN
    IF r.err # NoErr THEN Dec(h, 0, r.err)
    ELSE IF Len(b) > 0 /\ b[1] = 0 THEN Dec(h, 0, ErrUnexpectedEndOfData)
    ELSE decodeUintValue(h, id, r.n, readInt(b, Len(b) % 256))

\* decodeUint after decodeBytes has returned r: the length of the payload
\* is handed to readInt as a uint8
decodeUintBytes(h, id, src, r) ==
    LET b == Slice(src, r.lo, r.hi) IN
    IF r.err # NoErr THEN Dec(h, 0, r.err)
    ELSE decodeUintValue(h, id, r.n, readInt(b, Len(b) % 256))

decodeUint(h, id, src) == decodeUintBytes(h, id, src, decodeBytes(src))

\* decodeBigInt refusing payloads wider than 8 bytes, as decodeUint does
decodeBigIntInto_Ceiling(h, id, src, r) ==
    IF r.err # NoErr THEN Dec(h, 0, r.err)
    ELSE IF r.hi - r.lo > 8 THEN Dec(h, 0, ErrTooLarge)
    ELSE Dec([h EXCEPT ![id].b = StripZeros(Slice(src, r.lo, r.hi)), ![id].neg = FALSE],
             r.n, NoErr)

decodeBigIntInto(h, id, src, r) ==
    IF r.err # NoErr THEN Dec(h, 0, r.err)
    ELSE Dec([h EXCEPT ![id].b = StripZeros(Slice(src, r.lo, r.hi)), ![id].neg = FALSE],
             r.n, NoErr)

decodeBigInt(h, id, src) == decodeBigIntInto(h, id, src, decodeBytes(src))

\* RLP.DecodeRLP taking the whole of data as the view
decodeRawView_Whole(h, id, src, base, p) ==
    LET totalLen == Add64(p.dataLen, p.prefixLen) IN
    IF p.err # NoErr THEN Dec(h, 0, p.err)
    ELSE IF IntLess(Len(src), totalLen) THEN Dec(h, 0, ErrUnexpectedEndOfData)
    ELSE Dec([h EXCEPT ![id].b = <<>>, ![id].ref = << base, base + Len(src) >>],
             ToInt(totalLen), NoErr)

\* RLP.DecodeRLP after decodePrefix has returned p
decodeRawView(h, id, src, base, p) ==
    LET totalLen == Add64(p.dataLen, p.prefixLen) IN
    IF p.err # NoErr THEN Dec(h, 0, p.err)
    ELSE IF IntLess(Len(src), totalLen) THEN Dec(h, 0, ErrUnexpectedEndOfData)
    ELSE Dec([h EXCEPT ![id].b = <<>>, ![id].ref = << base, base + ToInt(totalLen) >>],
             ToInt(totalLen), NoErr)

decodeRaw(h, id, src, base) == decodeRawView(h, id, src, base, decodePrefix(src))

RECURSIVE DecodeRLP(_, _, _, _)
RECURSIVE decodeTypedListLoop(_, _, _, _, _, _, _)
RECURSIVE decodeTypedListItem(_, _, _, _, _, _, _, _, _)

\* (*dst)[n] taken to be the first slot whatever n is
SlotAt_First(h, id, n) == h[id].items[1]

\* (*dst)[n]
SlotAt(h, id, n) == h[id].items[n + 1]

\* src[prefixLen:totalLen] with every prefix taken to be one byte long
PayloadWindow_Prefix1(src, prefixLen, totalLen) == Slice(src, 1, totalLen)

\* src[prefixLen:] in place of src[prefixLen:totalLen]: the window left
\* open up to the end of the buffer
PayloadWindow_ToEnd(src, prefixLen, totalLen) == SliceFrom(src, prefixLen)

\* src = src[prefixLen:totalLen]: the payload of the list
PayloadWindow(src, prefixLen, totalLen) == Slice(src, prefixLen, totalLen)

\* One round of the loop of decodeTypedList, after the item's DecodeRLP has
\* returned r: dec is the pointer decoded into, reuse tells that it was a
\* slot of the destination and not a new item, which is appended here.
decodeTypedListItem(id, src, base, n, totalLen, elem, dec, reuse, r) ==
    IF r.err # NoErr THEN Dec(r.heap, 0, r.err)
    ELSE IF r.n > Len(src) \/ r.n = 0 THEN Dec(r.heap, 0, ErrUnexpectedEndOfData)
    ELSE IF r.n < 0
    THEN Dec(IF reuse THEN r.heap
             ELSE [r.heap EXCEPT ![id].items = Append(r.heap[id].items, dec)],
             0, PanicSlice)
    ELSE decodeTypedListLoop(
             IF reuse THEN r.heap
             ELSE [r.heap EXCEPT ![id].items = Append(r.heap[id].items, dec)],
             id, SliceFrom(src, r.n), base + r.n, n + 1, totalLen, elem)

\* the loop of decodeTypedList: src is the rest of the payload, n the index.
\* The item is decoded into the slot n when the destination has one, and
\* into a new item when it has not.
decodeTypedListLoop(h, id, src, base, n, totalLen, elem) ==
    IF Len(src) = 0 THEN Dec(h, totalLen, NoErr)
    ELSE IF n < Len(h[id].items)
    THEN IF h[SlotAt(h, id, n)].kind = "Other" THEN Dec(h, 0, ErrUnsupportedType)
         ELSE decodeTypedListItem(id, src, base, n, totalLen, elem, SlotAt(h, id, n), TRUE,
                                  DecodeRLP(h, SlotAt(h, id, n), src, base))
    ELSE IF ZeroOf(elem).kind = "Other" THEN Dec(h, 0, ErrUnsupportedType)
         ELSE decodeTypedListItem(id, src, base, n, totalLen, elem, Len(h) + 1, FALSE,
                                  DecodeRLP(Append(h, ZeroOf(elem)), Len(h) + 1, src, base))

\* decodeTypedList after decodePrefix has returned p
decodeTypedListPrefixed(h, id, src, base, elem, p) ==
    LET totalLen == Add64(p.dataLen, p.prefixLen) IN
    IF p.err # NoErr THEN Dec(h, 0, p.err)
    ELSE IF p.offset # listOffset THEN Dec(h, 0, ErrUnsupportedType)
    ELSE IF IntLess(Len(src), totalLen) THEN Dec(h, 0, ErrUnexpectedEndOfData)
    ELSE decodeTypedListLoop(h, id, PayloadWindow(src, p.prefixLen, ToInt(totalLen)),
                             base + p.prefixLen, 0, ToInt(totalLen), elem)

decodeTypedList(h, id, src, base, elem) ==
    IF Len(src) = 0 THEN Dec(h, 0, ErrUnexpectedEndOfData)
    ELSE IF src[1] = listOffset THEN Dec([h EXCEPT ![id].items = <<>>], 1, NoErr)
    ELSE decodeTypedListPrefixed(h, id, src, base, elem, decodePrefix(src))

decodeList(h, id, src, base) == decodeTypedList(h, id, src, base, "RLP")

DecodeRLP(h, id, src, base) ==
    LET o == h[id] IN
    CASE o.kind = "String" -> decodeString(h, id, src)
      [] o.kind = "Bytes" -> decodeBytesInto(h, id, src, base)
      [] o.kind = "Uint" -> decodeUint(h, id, src)
      [] o.kind = "BigInt" -> decodeBigInt(h, id, src)
      [] o.kind = "RLP" -> decodeRaw(h, id, src, base)
      [] o.kind = "List" -> decodeList(h, id, src, base)
      [] o.kind = "TypedList" -> decodeTypedList(h, id, src, base, o.elem)
      [] o.kind = "ErrItem" -> Dec(h, 0, ErrItemFails)
      [] o.kind = "SaysZero" -> Dec(h, 0, NoErr)
      [] o.kind = "SaysOver" -> Dec(h, Len(src) + 1, NoErr)
      [] o.kind = "SaysNegative" -> Dec(h, 0 - 1, NoErr)
      [] OTHER -> Dec(h, 0, ErrUnsupportedType)

(***************************************************************************)
(* Values as trees: an object whose items are the item values themselves.  *)
(* Alloc stores a tree in the heap (children first, in order) and ToTree   *)
(* reads the value an object holds back as a tree.                         *)
(***************************************************************************)
RECURSIVE Alloc(_, _)
RECURSIVE AllocSeq(_, _, _, _)
RECURSIVE AllocNext(_, _, _, _)

\* the heap after storing t, whose object is the last one
AllocList(t, r) == Append(r.heap, [t EXCEPT !.items = r.ids])

Alloc(h, t) ==
    IF t.kind \in {"List", "TypedList"}
    THEN AllocList(t, AllocSeq(h, t.items, 1, <<>>))
    ELSE Append(h, t)

AllocNext(h1, ts, i, ids) == AllocSeq(h1, ts, i + 1, Append(ids, Len(h1)))

AllocSeq(h, ts, i, ids) ==
    IF i > Len(ts) THEN [heap |-> h, ids |-> ids]
    ELSE AllocNext(Alloc(h, ts[i]), ts, i, ids)

RECURSIVE ToTree(_, _, _)
ToTree(h, inp, id) ==
    LET o == h[id] IN
    IF o.kind \in {"List", "TypedList"}
    THEN [o EXCEPT !.items = [i \in 1..Len(o.items) |-> ToTree(h, inp, o.items[i])]]
    ELSE [o EXCEPT !.b = Content(o, inp), !.ref = <<>>]

\* a decode target of the same shape and types as t, holding zero values
RECURSIVE Blank(_)
Blank(t) ==
    IF t.kind \in {"List", "TypedList"}
    THEN [t EXCEPT !.items = [i \in 1..Len(t.items) |-> Blank(t.items[i])]]
    ELSE [ZeroOf(t.kind) EXCEPT !.kind = t.kind]

(***************************************************************************)
(* The inputs.                                                             *)
(***************************************************************************)
\* the longest run of bytes appended after an encoding
MaxExtra == 2
\* the most nodes (lists and leaves) of an encoded list value
MaxNodes == 4
\* the most slots of a prepared destination list
MaxSlots == 2
\* the most items of a list some of whose items fail to encode
MaxItems == 3

PayloadLens == {0, 1, 2, 8, 9, 55, 56, 255, 256, 257, 264}
ShortLens == {0, 1, 2, 55, 56}
FirstBytes == {0, 1, 127, 128, 255}
Pattern(L, f, g) == [i \in 1..L |-> IF i = 1 THEN f ELSE g]
ByteStrs == {Pattern(L, f, 97) : L \in PayloadLens, f \in FirstBytes}
ShortStrs == {Pattern(L, f, 97) : L \in ShortLens, f \in FirstBytes}

\* uint64 values of every byte width, at and around the width boundaries
UintVals ==
    {Zero64} \cup
    {[j \in 1..8 |-> IF j < 9 - k THEN 0 ELSE IF j = 9 - k THEN f ELSE g] :
        k \in 1..8, f \in {1, 127, 128, 255}, g \in {0, 255}}

BigMags == {<<>>} \cup {Pattern(L, f, 0) : L \in {1, 8, 9, 56}, f \in {1, 128, 255}}

\* raw views: well-formed items, and byte sequences that are not one item
GoodViews ==
    { <<128>>, <<5>>, <<129, 128>>, <<192>>, <<194, 5, 128>>, <<248, 0>>,
      <<184, 0>>, <<193, 129>>, <<184, 56>> \o Rep(56, 97) }
BadViews == { <<>>, <<130, 1>>, <<194, 5>>, <<184>>, <<191>>, <<249, 0>> }

ExtraBytes == {0, 193}
RECURSIVE SeqsUpTo(_, _)
SeqsUpTo(S, n) ==
    IF n = 0 THEN {<<>>}
    ELSE LET R == SeqsUpTo(S, n - 1) IN R \cup {Append(r, x) : r \in R, x \in S}
Extras == SeqsUpTo(ExtraBytes, MaxExtra) \ {<<>>}

ScalarSources ==
    {NewBytes(s) : s \in ByteStrs} \cup {NewString(s) : s \in ShortStrs}
    \cup {NewUint(w) : w \in UintVals}
    \cup {NewBigInt(neg, m) : neg \in BOOLEAN, m \in BigMags \ {<<>>}}
    \cup {NewBigInt(FALSE, <<>>)}
    \cup {NewRLP(r) : r \in GoodViews \cup BadViews}

\* list values by number of nodes
Leaves ==
    { NewString(<<97>>), NewBytes(<<>>), NewUint(U64(256)), NewBytes(Rep(55, 97)) }

RECURSIVE TreesOfSize(_)
RECURSIVE ItemSeqs(_)
\* the sequences of trees with m nodes in total
ItemSeqs(m) ==
    IF m = 0 THEN {<<>>}
    ELSE UNION {{<<t>> \o r : t \in TreesOfSize(k), r \in ItemSeqs(m - k)} : k \in 1..m}
TreesOfSize(n) ==
    (IF n = 1 THEN Leaves ELSE {}) \cup {NewList(items) : items \in ItemSeqs(n - 1)}

ListTrees == UNION {{NewList(items) : items \in ItemSeqs(n - 1)} : n \in 1..MaxNodes}

\* prepared decode targets holding earlier values
OldString == NewString(<<122, 122>>)
OldBytes == NewBytes(<<122>>)
OldUint == NewUint(U64(7))
OldBigInt == NewBigInt(FALSE, <<9>>)
OldRLP == NewRLP(<<128>>)
DstScalars == {OldString, OldBytes, OldUint, OldBigInt, OldRLP}
DstSmallLists ==
    {NewList(<<>>), NewTypedList("RLP", <<>>), NewList(<<OldString>>),
     NewTypedList("String", <<OldString>>)}

SlotTrees == DstScalars \cup {NewOther, NewList(<<>>), NewList(<<OldString>>)}
DstShapes ==
    {NewList(items) : items \in SeqsUpTo(SlotTrees, MaxSlots)}
    \cup {NewTypedList(t.kind, [i \in 1..m |-> t]) :
            t \in {OldString, OldUint, OldRLP, NewOther}, m \in 0..MaxSlots}

\* crafted list encodings the encoder does not produce
RawLists ==
    { <<248, 0>>, <<193, 129>>, <<194, 5, 129>>, <<195, 5, 130, 1>>,
      <<193, 130, 97, 98>>, <<195, 193, 5, 192>>, <<194, 192, 192>>,
      <<194, 5, 130, 97, 98>>, <<194, 193, 130, 97, 98>> }

\* lists with items that fail to encode: an Encoder that fails, a value
\* that is no Encoder, and lists holding one of them
FailItems ==
    { NewErrItem, NewOther, NewList(<< NewOther >>),
      NewList(<< NewString(<<97>>), NewErrItem >>) }
FailingLists ==
    {NewList(items) :
        items \in {q \in SeqsUpTo({NewString(<<97>>), NewUint(U64(256))} \cup FailItems,
                                  MaxItems) :
                      \E i \in 1..Len(q) : q[i] \in FailItems}}

(***************************************************************************)
(* The calls.  A caller holds a value (srcId) and a decode target (dstId), *)
(* encodes the value, hands the bytes - as they are, followed by more      *)
(* bytes, or cut short - to Decode with the target.                        *)
(***************************************************************************)
SetupHeaps(h1, h2) ==
    /\ heap = h2
    /\ srcId = Len(h1)
    /\ dstId = Len(h2)
    /\ wire = <<>>
    /\ werr = NoErr
    /\ input = <<>>
    /\ mode = "none"
    /\ ret = [n |-> 0, err |-> NoErr]
    /\ heap0 = h2
    /\ pc = "start"

SetupTarget(h1, dst) == SetupHeaps(h1, Alloc(h1, dst))

Setup(src, dst) == SetupTarget(Alloc(<<>>, src), dst)

\* targets for a value: of its own shape and types, or of each other type
DstFor(t) == {Blank(t)} \cup DstScalars \cup DstSmallLists

\* lists holding a raw view
ViewLists == {NewList(<< NewRLP(r), NewString(<<97>>) >>) : r \in GoodViews \cup BadViews}

Init ==
    \E src \in ScalarSources \cup ListTrees \cup ViewLists :
        \E dst \in DstFor(src) : Setup(src, dst)

InitList ==
    \/ \E src \in ListTrees \cup {NewRLP(r) : r \in RawLists} :
         \E dst \in {Blank(src)} \cup DstShapes : Setup(src, dst)
    \/ \E src \in FailingLists : Setup(src, Blank(src))

\* the caller takes what Encode returned
Encoded(r) ==
    /\ wire' = r.out
    /\ werr' = r.err

\* Encode(src)
EncodeCall ==
    /\ pc = "start"
    /\ Encoded(EncodeRLP(heap, input, srcId))
    /\ pc' = "encoded"
    /\ UNCHANGED <<heap, srcId, dstId, input, mode, ret, heap0>>

FeedExact ==
    /\ pc = "encoded"
    /\ werr = NoErr
    /\ input' = wire
    /\ mode' = "exact"
    /\ pc' = "fed"
    /\ UNCHANGED <<heap, srcId, dstId, wire, werr, ret, heap0>>

FeedExtra ==
    /\ pc = "encoded"
    /\ werr = NoErr
    /\ \E extra \in Extras : input' = wire \o extra
    /\ mode' = "extra"
    /\ pc' = "fed"
    /\ UNCHANGED <<heap, srcId, dstId, wire, werr, ret, heap0>>

FeedCut ==
    /\ pc = "encoded"
    /\ werr = NoErr
    /\ \E k \in 0..(Len(wire) - 1) : input' = Slice(wire, 0, k)
    /\ mode' = "cut"
    /\ pc' = "fed"
    /\ UNCHANGED <<heap, srcId, dstId, wire, werr, ret, heap0>>

\* the caller takes what Decode returned, and the target as it has become
Returned(r) ==
    /\ heap' = r.heap
    /\ ret' = [n |-> r.n, err |-> r.err]

\* Decode(input, dst)
DecodeCall ==
    /\ pc = "fed"
    /\ Returned(DecodeRLP(heap, dstId, input, 0))
    /\ heap0' = heap
    /\ pc' = "decoded"
    /\ UNCHANGED <<srcId, dstId, wire, werr, input, mode>>

Next == EncodeCall \/ FeedExact \/ FeedExtra \/ FeedCut \/ DecodeCall

Spec == Init /\ [][Next]_vars

NextList == EncodeCall \/ FeedExact \/ DecodeCall

SpecList == InitList /\ [][NextList]_vars

(***************************************************************************)
(* The raw view.  RLP is a []byte over the caller's buffer; its methods    *)
(* read it without decoding it first.  An int is kept as a uint64 is, as   *)
(* its eight bytes.                                                        *)
(***************************************************************************)
\* IsString comparing the first byte with shortStringMax
IsString_ShortOnly(r) == Len(r) # 0 /\ r[1] <= shortStringMax

IsString(r) == Len(r) # 0 /\ r[1] <= longStringMax

IsList(r) == Len(r) # 0 /\ r[1] >= listOffset

RECURSIVE LengthLoop(_, _)
RECURSIVE LengthItem(_, _, _)

\* the loop of Length returning the items counted so far at a bad item
LengthItem_CountSoFar(d, n, p) ==
    LET totalLen == Add64(p.dataLen, p.prefixLen) IN
    IF p.err # NoErr THEN U64(n)
    ELSE IF IntLess(Len(d), totalLen) \/ totalLen = Zero64 THEN U64(n)
    ELSE LengthLoop(SliceFrom(d, ToInt(totalLen)), n + 1)

\* one round of the loop of Length, after decodePrefix(d) has returned p
LengthItem(d, n, p) ==
    LET totalLen == Add64(p.dataLen, p.prefixLen) IN
    IF p.err # NoErr THEN Zero64
    ELSE IF IntLess(Len(d), totalLen) \/ totalLen = Zero64 THEN Zero64
    ELSE LengthLoop(SliceFrom(d, ToInt(totalLen)), n + 1)

\* the loop of Length over the rest d of the payload, n items counted
LengthLoop(d, n) == IF Len(d) = 0 THEN U64(n) ELSE LengthItem(d, n, decodePrefix(d))

\* the list case of Length, after decodePrefix(r) has returned p
LengthList(r, p) ==
    LET totalLen == Add64(p.dataLen, p.prefixLen) IN
    IF p.err # NoErr THEN Zero64
    ELSE IF IntLess(Len(r), totalLen) THEN Zero64
    ELSE LengthLoop(Slice(r, p.prefixLen, ToInt(totalLen)), 0)

\* RLP.Length
Length(r) ==
    IF IsString(r) THEN decodePrefix(r).dataLen
    ELSE IF IsList(r) THEN LengthList(r, decodePrefix(r))
    ELSE Zero64

(***************************************************************************)
(* The calls on a raw view.  A caller holds a buffer (input) and reads it  *)
(* as a raw view: asks its length or its family, projects it into a list   *)
(* of raw items or into a Bytes value, or decodes it lazily into a new     *)
(* view or into a view it already holds; after a projection the caller may *)
(* write a byte of the buffer.  wire keeps the buffer as it was handed in, *)
(* dstId is the value the call produced.                                   *)
(***************************************************************************)
\* the longest buffer made of the bytes of ViewBytes
MaxViewLen == 3

ViewBytes == {5, 128, 129, 130, 184, 191, 192, 193, 194, 248}
Views ==
    SeqsUpTo(ViewBytes, MaxViewLen) \cup GoodViews \cup BadViews \cup RawLists
    \cup { <<183>>, <<183>> \o Rep(55, 97), <<247>>, <<248, 56, 183>> \o Rep(55, 97),
           <<248, 56, 183>> \o Rep(54, 97), <<185, 1, 0>> \o Rep(256, 97), <<185, 1, 0>>,
           <<249, 1, 0>>, <<255, 1, 1, 1, 1, 1, 1, 1, 1>>, <<196, 131, 97, 98, 99>>,
           <<197, 130, 97, 98, 193, 5>>, <<195, 130, 97, 98>> }

\* the bytes the caller writes into the buffer
WriteBytes == {0, 255}

InitView ==
    \E r \in Views :
        /\ heap = << OldRLP >>
        /\ srcId = 0
        /\ dstId = 0
        /\ wire = r
        /\ werr = NoErr
        /\ input = r
        /\ mode = "none"
        /\ ret = [n |-> 0, err |-> NoErr]
        /\ heap0 = << OldRLP >>
        /\ pc = "view"

\* r.Length()
LengthCall ==
    /\ pc = "view"
    /\ ret' = [n |-> Length(input), err |-> NoErr]
    /\ mode' = "Length"
    /\ pc' = "asked"
    /\ UNCHANGED <<heap, srcId, dstId, wire, werr, input, heap0>>

\* r.IsString()
IsStringCall ==
    /\ pc = "view"
    /\ ret' = [b |-> IsString(input)]
    /\ mode' = "IsString"
    /\ pc' = "asked"
    /\ UNCHANGED <<heap, srcId, dstId, wire, werr, input, heap0>>

\* r.IsList()
IsListCall ==
    /\ pc = "view"
    /\ ret' = [b |-> IsList(input)]
    /\ mode' = "IsList"
    /\ pc' = "asked"
    /\ UNCHANGED <<heap, srcId, dstId, wire, werr, input, heap0>>

\* the value of kind zero is declared, DecodeRLP(r) is called on it and the
\* caller takes what it returned
Projected(name, r) ==
    /\ Returned(r)
    /\ dstId' = Len(heap) + 1
    /\ heap0' = heap
    /\ mode' = name
    /\ pc' = "projected"
    /\ UNCHANGED <<srcId, wire, werr, input>>

\* r.List()
ListCall ==
    /\ pc = "view"
    /\ Projected("List", DecodeRLP(Append(heap, NewTypedList("RLP", <<>>)),
                                   Len(heap) + 1, input, 0))

\* r.Bytes(), and Bytes.DecodeRLP(r) on a new Bytes
BytesCall ==
    /\ pc = "view"
    /\ Projected("Bytes", DecodeRLP(Append(heap, NewBytes(<<>>)), Len(heap) + 1, input, 0))

\* r.String()
StringCall ==
    /\ pc = "view"
    /\ Projected("String", DecodeRLP(Append(heap, NewString(<<>>)), Len(heap) + 1, input, 0))

\* DecodeLazy(input)
DecodeLazyCall ==
    /\ pc = "view"
    /\ Projected("DecodeLazy", DecodeRLP(Append(heap, NewRLP(<<>>)), Len(heap) + 1, input, 0))

\* (&v).DecodeRLP(input) on the view v the caller already holds
ViewDecodeCall ==
    /\ pc = "view"
    /\ Returned(DecodeRLP(heap, 1, input, 0))
    /\ dstId' = 1
    /\ heap0' = heap
    /\ mode' = "DecodeRLP"
    /\ pc' = "projected"
    /\ UNCHANGED <<srcId, wire, werr, input>>

\* the caller writes one byte of the buffer after a projection
WriteInput ==
    /\ pc = "projected"
    /\ ret.err = NoErr
    /\ \E k \in 1..Len(input) : \E c \in WriteBytes :
          /\ c # input[k]
          /\ input' = [input EXCEPT ![k] = c]
    /\ pc' = "written"
    /\ UNCHANGED <<heap, srcId, dstId, wire, werr, mode, ret, heap0>>

NextView ==
    \/ LengthCall \/ IsStringCall \/ IsListCall
    \/ ListCall \/ BytesCall \/ StringCall \/ DecodeLazyCall \/ ViewDecodeCall
    \/ WriteInput

SpecView == InitView /\ [][NextView]_vars

(***************************************************************************)
(* Two calls of Decode at once.  Two goroutines decode the same buffer     *)
(* (input), each from its own offset into its own destination; the         *)
(* scheduler may switch between them before a call starts and between two  *)
(* rounds of the loop of decodeTypedList over the top-level items.         *)
(* pc[p] is the position of call p: at is "start", "loop" or "done", dst   *)
(* its destination, off the offset of its src in the buffer, and in the    *)
(* loop input[lo:hi] is the rest of the payload, n the index and total the *)
(* length of the item.  ret[p] is what call p returned.                    *)
(***************************************************************************)
\* the largest offset a call starts at
MaxOffset == 1

ParInputs ==
    { <<197, 130, 97, 98, 193, 5>>, <<195, 5, 128, 97>>, <<192>>, <<130, 97, 98>>,
      <<194, 5>>, <<195, 193, 5, 192>>, <<248, 0>>, <<196, 131, 97, 98, 99>> }
ParDsts ==
    { NewList(<<>>), NewList(<< OldBytes >>), NewList(<< OldString, OldUint >>),
      NewTypedList("RLP", <<>>), NewTypedList("Bytes", <<>>), OldBytes, OldRLP,
      NewList(<< NewOther >>), NewList(<< NewList(<<>>) >>),
      NewList(<< NewSays("SaysZero") >>), NewList(<< OldBytes, NewSays("SaysOver") >>),
      NewList(<< NewSays("SaysNegative") >>), NewTypedList("SaysZero", <<>>),
      NewTypedList("SaysOver", <<>>), NewTypedList("SaysNegative", <<>>) }

ParCall(dst, off) ==
    [at |-> "start", dst |-> dst, off |-> off, lo |-> 0, hi |-> 0, n |-> 0, total |-> 0]

SetupPar(buf, off1, off2, h1, h2) ==
    /\ heap = h2
    /\ srcId = 0
    /\ dstId = 0
    /\ wire = buf
    /\ werr = NoErr
    /\ input = buf
    /\ mode = "par"
    /\ ret = << [n |-> 0, err |-> NoErr], [n |-> 0, err |-> NoErr] >>
    /\ heap0 = h2
    /\ pc = << ParCall(Len(h1), off1), ParCall(Len(h2), off2) >>

SetupParTarget(buf, off1, off2, h1, d2) == SetupPar(buf, off1, off2, h1, Alloc(h1, d2))

InitPar ==
    \E buf \in ParInputs : \E off1, off2 \in 0..MaxOffset : \E d1, d2 \in ParDsts :
        SetupParTarget(buf, off1, off2, Alloc(<<>>, d1), d2)

\* the src of call p
ParSrc(p) == SliceFrom(input, pc[p].off)

\* the destination of call 1, whichever call asks
ParDst_First(p) == pc[1].dst

\* the destination of call p
ParDst(p) == pc[p].dst

\* call p returns r
ParReturn(p, r) ==
    /\ heap' = r.heap
    /\ ret' = [ret EXCEPT ![p] = [n |-> r.n, err |-> r.err]]
    /\ pc' = [pc EXCEPT ![p].at = "done"]

\* decodeTypedList of call p up to its loop, after decodePrefix has returned pfx
ParEnterList(p, src, pfx) ==
    LET totalLen == Add64(pfx.dataLen, pfx.prefixLen) IN
    IF pfx.err # NoErr THEN ParReturn(p, Dec(heap, 0, pfx.err))
    ELSE IF pfx.offset # listOffset THEN ParReturn(p, Dec(heap, 0, ErrUnsupportedType))
    ELSE IF IntLess(Len(src), totalLen) THEN ParReturn(p, Dec(heap, 0, ErrUnexpectedEndOfData))
    ELSE /\ pc' = [pc EXCEPT ![p].at = "loop",
                             ![p].lo = pc[p].off + pfx.prefixLen,
                             ![p].hi = pc[p].off + ToInt(totalLen),
                             ![p].n = 0,
                             ![p].total = ToInt(totalLen)]
         /\ UNCHANGED <<heap, ret>>

\* call p starts: a list destination runs decodeTypedList up to its loop,
\* any other destination decodes at once
ParEnter(p) ==
    /\ pc[p].at = "start"
    /\ IF heap[ParDst(p)].kind \in {"List", "TypedList"}
       THEN IF Len(ParSrc(p)) = 0 THEN ParReturn(p, Dec(heap, 0, ErrUnexpectedEndOfData))
            ELSE IF ParSrc(p)[1] = listOffset
            THEN ParReturn(p, Dec([heap EXCEPT ![ParDst(p)].items = <<>>], 1, NoErr))
            ELSE ParEnterList(p, ParSrc(p), decodePrefix(ParSrc(p)))
       ELSE ParReturn(p, DecodeRLP(heap, ParDst(p), ParSrc(p), pc[p].off))
    /\ UNCHANGED <<srcId, dstId, wire, werr, input, mode, heap0>>

\* one round of the loop of call p, after the item's DecodeRLP has returned r
ParItemDecoded(p, src, dec, reuse, r) ==
    IF r.err # NoErr THEN ParReturn(p, Dec(r.heap, 0, r.err))
    ELSE IF r.n > Len(src) \/ r.n = 0 THEN ParReturn(p, Dec(r.heap, 0, ErrUnexpectedEndOfData))
    ELSE IF r.n < 0
    THEN ParReturn(p, Dec(IF reuse THEN r.heap
                          ELSE [r.heap EXCEPT ![ParDst(p)].items =
                                                  Append(r.heap[ParDst(p)].items, dec)],
                          0, PanicSlice))
    ELSE /\ heap' = IF reuse THEN r.heap
                    ELSE [r.heap EXCEPT ![ParDst(p)].items =
                                            Append(r.heap[ParDst(p)].items, dec)]
         /\ pc' = [pc EXCEPT ![p].lo = pc[p].lo + r.n, ![p].n = pc[p].n + 1]
         /\ UNCHANGED ret

\* one round of the loop of decodeTypedList of call p over src, the rest of
\* its payload
ParItemOf(p, src) ==
    IF Len(src) = 0 THEN ParReturn(p, Dec(heap, pc[p].total, NoErr))
    ELSE IF pc[p].n < Len(heap[ParDst(p)].items)
    THEN IF heap[SlotAt(heap, ParDst(p), pc[p].n)].kind = "Other"
         THEN ParReturn(p, Dec(heap, 0, ErrUnsupportedType))
         ELSE ParItemDecoded(p, src, SlotAt(heap, ParDst(p), pc[p].n), TRUE,
                             DecodeRLP(heap, SlotAt(heap, ParDst(p), pc[p].n), src, pc[p].lo))
    ELSE IF ZeroOf(heap[ParDst(p)].elem).kind = "Other"
         THEN ParReturn(p, Dec(heap, 0, ErrUnsupportedType))
         ELSE ParItemDecoded(p, src, Len(heap) + 1, FALSE,
                             DecodeRLP(Append(heap, ZeroOf(heap[ParDst(p)].elem)),
                                       Len(heap) + 1, src, pc[p].lo))

ParItem(p) ==
    /\ pc[p].at = "loop"
    /\ ParItemOf(p, Slice(input, pc[p].lo, pc[p].hi))
    /\ UNCHANGED <<srcId, dstId, wire, werr, input, mode, heap0>>

NextPar == \E p \in {1, 2} : ParEnter(p) \/ ParItem(p)

SpecPar == InitPar /\ [][NextPar]_vars

(***************************************************************************)
(* The calls of the helpers of rlp.go, each on its own arguments: wire is  *)
(* the uint64 argument (length of encodePrefix, i of writeInt), srcId the  *)
(* offset argument of encodePrefix, input the buffer handed to             *)
(* decodePrefix; ret is what the call returned.                            *)
(***************************************************************************)
\* the most bytes that follow the first byte of a buffer of decodePrefix
MaxFollow == 9

\* uint64 arguments: the small lengths around 55 and 255, and values of every
\* byte width at and around the width boundaries
LengthWords == UintVals \cup {U64(n) : n \in {0, 1, 54, 55, 56, 57, 255, 256, 65535, 65536}}

PrefixFirstBytes == {0, 127, 128, 129, 183, 184, 185, 190, 191, 192, 193, 247, 248, 249, 254, 255}
PrefixBuffers ==
    {<<>>} \cup {<< c >> \o Rep(k, f) : c \in PrefixFirstBytes, k \in 0..MaxFollow, f \in {0, 1, 255}}

SetupHelper(w, offset, buf) ==
    /\ heap = <<>>
    /\ srcId = offset
    /\ dstId = 0
    /\ wire = w
    /\ werr = NoErr
    /\ input = buf
    /\ mode = "none"
    /\ ret = [err |-> NoErr]
    /\ heap0 = <<>>
    /\ pc = "args"

InitHelper ==
    \/ \E w \in LengthWords : \E offset \in {stringOffset, listOffset} : SetupHelper(w, offset, <<>>)
    \/ \E buf \in PrefixBuffers : SetupHelper(Zero64, stringOffset, buf)

\* the caller takes what a helper returned
HelperReturned(name, r) ==
    /\ ret' = r
    /\ mode' = name
    /\ pc' = "returned"
    /\ UNCHANGED <<heap, srcId, dstId, wire, werr, input, heap0>>

\* encodePrefix(length, offset)
EncodePrefixCall ==
    /\ pc = "args" /\ input = <<>>
    /\ HelperReturned("encodePrefix", encodePrefix(wire, srcId))

\* writeInt(make([]byte, 8), i)
WriteIntCall ==
    /\ pc = "args" /\ input = <<>>
    /\ HelperReturned("writeInt", writeInt(Rep(8, 0), wire))

\* decodePrefix(prefix)
DecodePrefixCall ==
    /\ pc = "args" /\ wire = Zero64 /\ srcId = stringOffset
    /\ HelperReturned("decodePrefix", decodePrefix(input))

NextHelper == EncodePrefixCall \/ WriteIntCall \/ DecodePrefixCall

SpecHelper == InitHelper /\ [][NextHelper]_vars

(***************************************************************************)
(* What the claims speak about.                                            *)
(***************************************************************************)
\* RLP.List(): the raw children of a view, decoded into an empty TypedList[RLP]
RLPList(r) ==
    LET h == << NewTypedList("RLP", <<>>) >>
        d == DecodeRLP(h, 1, r, 0)
    IN  [err |-> d.err,
         l |-> [i \in 1..Len(d.heap[1].items) |-> Content(d.heap[d.heap[1].items[i]], r)]]

\* bytes that are exactly one complete item (its prefix and all its payload)
OneItem(s) ==
    LET p == decodePrefix(s)
        totalLen == Add64(p.dataLen, p.prefixLen)
    IN  p.err = NoErr /\ IsSmall(totalLen) /\ ToInt(totalLen) = Len(s)

IsListKind(k) == k \in {"List", "TypedList"}

\* the encoded value, the target before the call and the target after it
SrcTree == ToTree(heap0, <<>>, srcId)
DstTree0 == ToTree(heap0, input, dstId)
DstTree == ToTree(heap, input, dstId)
Decoded == pc = "decoded"

\* C1: Byte-string round trip: decoding encodeBytes(s) into a Bytes or String
\* destination succeeds, yields s and reports len(encodeBytes(s)) bytes.
C1_BytesRoundTrip ==
    (Decoded /\ mode = "exact" /\ SrcTree.kind \in {"Bytes", "String"}
             /\ DstTree0.kind \in {"Bytes", "String"})
    => /\ ret.err = NoErr
       /\ DstTree.b = SrcTree.b
       /\ ret.n = Len(wire)

C1_Witness ==
    /\ Decoded /\ mode = "exact"
    /\ SrcTree.kind = "Bytes" /\ Len(SrcTree.b) = 56 /\ SrcTree.b[1] = 128
    /\ DstTree0.kind = "String"
    /\ ret.err = NoErr /\ DstTree.b = SrcTree.b /\ ret.n = 58

\* C2: List round trip: decoding Encode(l) into a destination List of decode
\* targets of the same shape and types succeeds, leaves the destination
\* structurally equal to l and reports len(Encode(l)) bytes.
C2_ListRoundTrip ==
    (Decoded /\ mode = "exact" /\ SrcTree.kind = "List" /\ DstTree0 = Blank(SrcTree))
    => /\ ret.err = NoErr
       /\ DstTree = SrcTree
       /\ ret.n = Len(wire)

C2_Witness ==
    /\ Decoded /\ mode = "exact" /\ SrcTree.kind = "List"
    /\ DstTree0 = Blank(SrcTree)
    /\ Len(SrcTree.items) = 2
    /\ SrcTree.items[1].kind = "List" /\ Len(SrcTree.items[1].items) = 1
    /\ SrcTree.items[1].items[1].kind = "Bytes" /\ Len(SrcTree.items[1].items[1].b) = 55
    /\ SrcTree.items[2].kind = "Uint"
    /\ ret.err = NoErr /\ DstTree = SrcTree /\ ret.n = Len(wire) /\ Len(wire) > 56

\* the minimal big-endian bytes of a uint64: its eight bytes without the
\* leading zero bytes
MinimalBE(w) == StripZeros(w)

\* C3: encodeUint(0) is [0x80]; for v >= 1 encodeUint(v) is the byte-string
\* encoding of the minimal big-endian bytes of v (1 to 8 bytes, no leading
\* zero); decodeUint(encodeUint(v)) succeeds with v and consumes everything.
C3_UintRoundTrip ==
    /\ (pc # "start" /\ SrcTree.kind = "Uint")
       => /\ werr = NoErr
          /\ SrcTree.u = Zero64 => wire = << 128 >>
          /\ SrcTree.u # Zero64 =>
                /\ Len(MinimalBE(SrcTree.u)) \in 1..8
                /\ MinimalBE(SrcTree.u)[1] # 0
                /\ wire = encodeBytes(MinimalBE(SrcTree.u)).out
    /\ (Decoded /\ mode = "exact" /\ SrcTree.kind = "Uint" /\ DstTree0.kind = "Uint")
       => /\ ret.err = NoErr
          /\ DstTree.u = SrcTree.u
          /\ ret.n = Len(wire)

C3_Witness ==
    /\ Decoded /\ mode = "exact" /\ SrcTree.kind = "Uint" /\ DstTree0.kind = "Uint"
    /\ SrcTree.u = <<255, 255, 255, 255, 255, 255, 255, 255>>
    /\ wire = <<136, 255, 255, 255, 255, 255, 255, 255, 255>>
    /\ ret.err = NoErr /\ DstTree.u = SrcTree.u /\ ret.n = 9

\* the payload of a well-formed string item
StringPayload(s) == LET r == decodeBytes(s) IN Slice(s, r.lo, r.hi)
IsStringItem(s) == OneItem(s) /\ s[1] < listOffset
IsListItem(s) == OneItem(s) /\ s[1] >= listOffset

\* C4: Decoding into a Uint fails with ErrTooLarge and leaves the destination
\* unchanged for every well-formed string item whose payload is wider than
\* 8 bytes (L = 9, 255, 256, 257, 264, ...).
C4_WidePayloadTooLarge ==
    (Decoded /\ mode \in {"exact", "extra"} /\ DstTree0.kind = "Uint"
             /\ IsStringItem(wire) /\ Len(StringPayload(wire)) > 8)
    => /\ ret.err = ErrTooLarge
       /\ DstTree = DstTree0

\* targets of the type of the encoded value: for a scalar a target of its
\* kind, for a list targets of its shape and types or an empty list
SameType(x, d) ==
    IF IsListKind(x.kind)
    THEN d = Blank(x) \/ (IsListKind(d.kind) /\ d.items = <<>> /\ d.elem = "RLP")
    ELSE d.kind = x.kind

\* every raw view in the value (the value itself, or a list element at any
\* depth) holds exactly one complete item
RECURSIVE ViewsWhole(_)
ViewsWhole(x) ==
    IF IsListKind(x.kind) THEN \A i \in 1..Len(x.items) : ViewsWhole(x.items[i])
    ELSE x.kind = "RLP" => OneItem(x.b)

\* the target after decoding Encode(x) alone
AloneTree ==
    LET r == DecodeRLP(heap0, dstId, wire, 0) IN
    [err |-> r.err, n |-> r.n, t |-> ToTree(r.heap, wire, dstId)]

TrailingTolerated ==
    /\ ret.err = NoErr
    /\ ret.n = Len(wire)
    /\ AloneTree.err = NoErr
    /\ DstTree = AloneTree.t

\* C5 (as stated): for every encodable x, raw views included, decoding
\* Encode(x) ++ extra into a destination of x's type succeeds, gives the
\* value decoding Encode(x) alone gives, and reports len(Encode(x)) bytes.
C5_TrailingAnyValue ==
    (Decoded /\ mode = "extra" /\ SameType(SrcTree, DstTree0)) => TrailingTolerated

\* C5 (amended): the same, for every encodable x all of whose raw views hold
\* exactly one complete item.
C5_TrailingWholeViews ==
    (Decoded /\ mode = "extra" /\ SameType(SrcTree, DstTree0) /\ ViewsWhole(SrcTree))
    => TrailingTolerated

C5_Witness ==
    /\ Decoded /\ mode = "extra" /\ SameType(SrcTree, DstTree0)
    /\ SrcTree.kind = "List" /\ Len(SrcTree.items) = 3
    /\ input = wire \o <<193, 0>>
    /\ TrailingTolerated

\* C6: Truncation fails: decoding a proper prefix of a valid encoding into a
\* raw view, a String/Bytes destination or a List destination of the
\* matching family fails with ErrUnexpectedEndOfData.
MatchingFamily(e, k) ==
    \/ k = "RLP"
    \/ e[1] < listOffset /\ k \in {"String", "Bytes"}
    \/ e[1] >= listOffset /\ IsListKind(k)

C6_TruncationFails ==
    (Decoded /\ mode = "cut" /\ OneItem(wire) /\ MatchingFamily(wire, DstTree0.kind))
    => /\ ret.err = ErrUnexpectedEndOfData
       /\ ret.n = 0

C6_Witness ==
    /\ Decoded /\ mode = "cut" /\ OneItem(wire)
    /\ Len(wire) = 259 /\ wire[1] = 185 /\ Len(input) = 2
    /\ DstTree0.kind = "Bytes"
    /\ ret.err = ErrUnexpectedEndOfData

\* C7: Family mismatch: a well-formed, fully present List item decoded into
\* String, Bytes, Uint or BigInt fails with ErrUnsupportedType, and so does
\* a String item (a single byte below 0x80 and 0x80 included) decoded into
\* List or TypedList.
C7_FamilyMismatch ==
    (Decoded /\ mode \in {"exact", "extra"})
    => /\ (IsListItem(wire) /\ DstTree0.kind \in {"String", "Bytes", "Uint", "BigInt"})
          => ret.err = ErrUnsupportedType /\ ret.n = 0
       /\ (IsStringItem(wire) /\ IsListKind(DstTree0.kind))
          => ret.err = ErrUnsupportedType /\ ret.n = 0

C7_Witness ==
    /\ Decoded /\ mode = "exact"
    /\ IsListItem(wire) /\ Len(wire) > 56 /\ DstTree0.kind = "BigInt"
    /\ ret.err = ErrUnsupportedType

\* the slots of the destination list before and after the call, and the
\* raw items of the encoded list
Slots0 == heap0[dstId].items
Slots == heap[dstId].items
Kids == RLPList(input)
Max(a, b) == IF a > b THEN a ELSE b

\* the value the target holds once the item e alone is decoded into it
ItemInto(h, id, e) == LET r == DecodeRLP(h, id, e, 0) IN ToTree(r.heap, e, id)

\* C8: Reuse-or-append: after a non-empty encoded list of k items is decoded
\* into a destination that had m slots, slot i < min(m,k) is the same target
\* object, now holding item i, and slot i with m <= i < k is a fresh object
\* of the factory holding item i; items are assigned in encoded order.
C8_ReuseOrAppend ==
    (Decoded /\ ret.err = NoErr /\ IsListKind(DstTree0.kind) /\ Len(Kids.l) >= 1)
    => LET m == Len(Slots0)
           k == Len(Kids.l)
           elem == heap0[dstId].elem
       IN  /\ Kids.err = NoErr
           /\ Len(Slots) = Max(m, k)
           /\ \A i \in 1..k :
                IF i <= m
                THEN /\ Slots[i] = Slots0[i]
                     /\ ToTree(heap, input, Slots[i]) = ItemInto(heap0, Slots0[i], Kids.l[i])
                ELSE /\ Slots[i] > Len(heap0)
                     /\ \A j \in 1..k : j # i => Slots[j] # Slots[i]
                     /\ heap[Slots[i]].kind = elem
                     /\ ToTree(heap, input, Slots[i])
                          = ItemInto(Append(heap0, ZeroOf(elem)), Len(heap0) + 1, Kids.l[i])

C8_Witness ==
    /\ Decoded /\ ret.err = NoErr /\ DstTree0.kind = "List"
    /\ Len(Slots0) = 1 /\ Len(Kids.l) = 3
    /\ DstTree0.items[1] = OldUint
    /\ Slots[1] = Slots0[1] /\ DstTree.items[1] = NewUint(U64(256))
    /\ Slots[2] > Len(heap0) /\ DstTree.items[2] = NewRLP(<<97>>)
    /\ DstTree.items[3] = NewRLP(<<128>>)

\* C9: A successful list decode never shrinks or clears the destination:
\* with k items encoded and m >= k slots, len(D) is still m afterwards and
\* slots k..m-1 are unchanged, for every k >= 0, the empty list encoded as
\* 0xC0 or as 0xF8 0x00 included.
C9_NeverShrinks ==
    (Decoded /\ ret.err = NoErr /\ IsListKind(DstTree0.kind) /\ Kids.err = NoErr
             /\ Len(Slots0) >= Len(Kids.l))
    => /\ Len(Slots) = Len(Slots0)
       /\ \A i \in (Len(Kids.l) + 1)..Len(Slots0) :
            /\ Slots[i] = Slots0[i]
            /\ ToTree(heap, input, Slots[i]) = ToTree(heap0, input, Slots0[i])

\* C10: No partial success: when a list decode returns an error the
\* destination has the length it had before the call, nothing was appended
\* and no slot holds a value decoded during the failed call.
C10_NoPartialDecode ==
    (Decoded /\ ret.err # NoErr /\ IsListKind(DstTree0.kind))
    => /\ Slots = Slots0
       /\ DstTree = DstTree0

\* the items of the encoded list, and the outcome of item i encoded alone
SrcItems == heap[srcId].items
ItemIsEncoder(i) == heap[SrcItems[i]].kind # "Other"
ItemErr(i) ==
    IF ItemIsEncoder(i) THEN EncodeRLP(heap, <<>>, SrcItems[i]).err ELSE ErrUnsupportedType
FirstToFail(i) == ItemErr(i) # NoErr /\ \A j \in 1..(i - 1) : ItemErr(j) = NoErr
SrcCalls == encodeTypedListCalls(heap, <<>>, SrcItems, 1)

\* C11: List encode short-circuits: when item i is the first whose EncodeRLP
\* fails, Encode of the list returns that item's error and no bytes and no
\* item after i is encoded; when the first offending item is no Encoder the
\* error is ErrUnsupportedType (and the item itself is not encoded).
C11_EncodeShortCircuits ==
    (pc = "encoded" /\ IsListKind(SrcTree.kind))
    => \A i \in 1..Len(SrcItems) :
          FirstToFail(i)
          => /\ werr = ItemErr(i)
             /\ wire = <<>>
             /\ \A k \in 1..Len(SrcCalls) : SrcCalls[k] <= i
             /\ ~ItemIsEncoder(i) => /\ werr = ErrUnsupportedType
                                     /\ \A k \in 1..Len(SrcCalls) : SrcCalls[k] < i

C11_Witness ==
    /\ pc = "encoded" /\ SrcTree.kind = "List" /\ Len(SrcItems) = 3
    /\ SrcTree.items[1].kind = "String"
    /\ SrcTree.items[2].kind = "ErrItem"
    /\ SrcTree.items[3].kind = "Other"
    /\ FirstToFail(2)
    /\ werr = ErrItemFails /\ wire = <<>> /\ SrcCalls = << 1, 2 >>

\* C12: Byte-string encoding has three cases: the empty sequence encodes to
\* [0x80]; a single byte b < 0x80 encodes to [b] (and decodes back to [b]);
\* every other sequence s encodes to encodePrefix(len(s), String) followed by
\* s unchanged.
C12_ThreeCases ==
    /\ (pc # "start" /\ SrcTree.kind \in {"Bytes", "String"})
       => LET b == SrcTree.b IN
          /\ werr = NoErr
          /\ Len(b) = 0 => wire = << 128 >>
          /\ (Len(b) = 1 /\ b[1] < 128) => wire = << b[1] >>
          /\ (Len(b) >= 2 \/ (Len(b) = 1 /\ b[1] >= 128))
             => /\ encodePrefix(U64(Len(b)), stringOffset).err = NoErr
                /\ wire = encodePrefix(U64(Len(b)), stringOffset).out \o b
    /\ (Decoded /\ mode = "exact" /\ SrcTree.kind \in {"Bytes", "String"}
               /\ Len(SrcTree.b) = 1 /\ SrcTree.b[1] < 128
               /\ DstTree0.kind \in {"Bytes", "String"})
       => ret.err = NoErr /\ DstTree.b = SrcTree.b

C12_Witness ==
    /\ Decoded /\ mode = "exact" /\ SrcTree.kind = "Bytes" /\ SrcTree.b = << 127 >>
    /\ DstTree0.kind = "Bytes"
    /\ wire = << 127 >> /\ ret.err = NoErr /\ DstTree.b = << 127 >>

\* the concatenation of a sequence of byte sequences, in order
RECURSIVE Concat(_)
Concat(ss) == IF Len(ss) = 0 THEN <<>> ELSE Head(ss) \o Concat(Tail(ss))

\* the framed concatenation of a value: for a list the list prefix of the
\* length of E followed by E, the framed concatenations of its items in
\* order; for any other value its own encoding
RECURSIVE FramedConcat(_)
FramedConcat(t) ==
    IF IsListKind(t.kind)
    THEN LET E == Concat([i \in 1..Len(t.items) |-> FramedConcat(t.items[i])])
         IN  encodePrefix(U64(Len(E)), listOffset).out \o E
    ELSE EncodeRLP(<< t >>, <<>>, 1).out

\* C13: List encoding is the framed concatenation: for every list whose
\* items all encode, Encode returns encodePrefix(len(E), List) ++ E with E
\* the encodings of the items in order; the empty list encodes to [0xC0];
\* nested lists follow the same rule.
C13_FramedConcatenation ==
    (pc = "encoded" /\ IsListKind(SrcTree.kind)
        /\ \A i \in 1..Len(SrcItems) : ItemErr(i) = NoErr)
    => LET E == Concat([i \in 1..Len(SrcItems) |-> EncodeRLP(heap, <<>>, SrcItems[i]).out])
       IN  /\ werr = NoErr
           /\ wire = encodePrefix(U64(Len(E)), listOffset).out \o E
           /\ wire = FramedConcat(SrcTree)
           /\ Len(SrcItems) = 0 => wire = << 192 >>

C13_Witness ==
    /\ pc = "encoded" /\ SrcTree.kind = "List" /\ Len(SrcItems) = 2
    /\ SrcTree.items[1] = NewList(<< NewString(<<97>>) >>)
    /\ SrcTree.items[2] = NewUint(U64(256))
    /\ werr = NoErr
    /\ wire = << 197, 193, 97, 130, 1, 0 >>

\* C14: Arbitrary-precision integers have no width ceiling: encodeBigInt(0)
\* is [0x80]; decoding encodeBigInt(x) into a BigInt yields x for every
\* non-negative x; decoding a well-formed string item into a BigInt succeeds
\* for every payload length, payloads wider than 8 bytes included, and gives
\* the big-endian value of the payload (its bytes without leading zeros,
\* not negative).
C14_BigIntNoCeiling ==
    /\ (pc # "start" /\ SrcTree.kind = "BigInt" /\ SrcTree.b = <<>>) => wire = << 128 >>
    /\ (Decoded /\ mode = "exact" /\ SrcTree.kind = "BigInt" /\ ~SrcTree.neg
               /\ DstTree0.kind = "BigInt")
       => /\ ret.err = NoErr
          /\ DstTree.b = SrcTree.b /\ DstTree.neg = FALSE
          /\ ret.n = Len(wire)
    /\ (Decoded /\ mode \in {"exact", "extra"} /\ IsStringItem(wire)
               /\ DstTree0.kind = "BigInt")
       => /\ ret.err = NoErr
          /\ DstTree.b = StripZeros(StringPayload(wire)) /\ DstTree.neg = FALSE
          /\ ret.n = Len(wire)

C14_Witness ==
    /\ Decoded /\ mode = "exact" /\ SrcTree.kind = "BigInt" /\ ~SrcTree.neg
    /\ Len(SrcTree.b) = 56 /\ SrcTree.b[1] = 255
    /\ DstTree0 = OldBigInt
    /\ ret.err = NoErr /\ DstTree.b = SrcTree.b /\ ret.n = 58

\* what a call on the raw view was and was given
Asked(name) == pc = "asked" /\ mode = name
Called(name) == pc = "projected" /\ mode = name

\* a view that is not a valid item: empty, with a prefix that is cut short
\* or too large, or with fewer bytes than prefixLen+dataLen
InvalidView(r) ==
    LET p == decodePrefix(r) IN
    \/ Len(r) = 0
    \/ p.err # NoErr
    \/ IntLess(Len(r), Add64(p.dataLen, p.prefixLen))

\* C15: RLP.Length returns 0 whenever the raw view is not a valid item:
\* empty, prefix cut short or too large, or fewer bytes than
\* prefixLen+dataLen, in the string family as in the list family.
C15_InvalidLengthZero ==
    (Asked("Length") /\ InvalidView(input)) => ret.n = Zero64

\* the raw items r.List() returned, and the declared payload of the view
ListItems == [i \in 1..Len(heap[dstId].items) |-> Content(heap[heap[dstId].items[i]], input)]
ViewPayload(r) ==
    LET p == decodePrefix(r) IN Slice(r, p.prefixLen, ToInt(Add64(p.dataLen, p.prefixLen)))

\* C16: For a raw view r of list family Length() and List() agree: when
\* r.List() succeeds with k raw items, r.Length() is k and the items tile
\* the declared payload exactly; when r.List() fails, r.Length() is 0.
C16_LengthAgreesWithList ==
    (Called("List") /\ IsList(input))
    => /\ ret.err = NoErr
          => /\ Length(input) = U64(Len(ListItems))
             /\ Concat(ListItems) = ViewPayload(input)
       /\ ret.err # NoErr => Length(input) = Zero64

C16_Witness ==
    /\ Called("List") /\ input = << 197, 130, 97, 98, 193, 5 >>
    /\ ret.err = NoErr
    /\ ListItems = << << 130, 97, 98 >>, << 193, 5 >> >>
    /\ Length(input) = U64(2)

\* C17: Classification: for every non-empty raw view exactly one of
\* IsString() and IsList() is true - IsString iff the first byte is <= 0xBF,
\* IsList iff it is >= 0xC0 - and it is the family decodePrefix reports when
\* decodePrefix succeeds on the same bytes; for the empty view both are false.
C17_Classification ==
    /\ Asked("IsString")
       => /\ Len(input) = 0 => ~ret.b /\ ~IsList(input)
          /\ Len(input) # 0
             => /\ ret.b <=> input[1] <= 191
                /\ ret.b <=> ~IsList(input)
                /\ decodePrefix(input).err = NoErr
                   => (ret.b <=> decodePrefix(input).offset = stringOffset)
    /\ Asked("IsList")
       => /\ Len(input) = 0 => ~ret.b /\ ~IsString(input)
          /\ Len(input) # 0
             => /\ ret.b <=> input[1] >= 192
                /\ ret.b <=> ~IsString(input)
                /\ decodePrefix(input).err = NoErr
                   => (ret.b <=> decodePrefix(input).offset = listOffset)

C17_Witness ==
    /\ Asked("IsString") /\ Len(input) = 58 /\ input[1] = 184
    /\ decodePrefix(input).err = NoErr /\ decodePrefix(input).offset = stringOffset
    /\ ret.b /\ ~IsList(input)

\* the view before a lazy decode: the one the caller held, or the new one
\* of DecodeLazy
ViewBefore == IF mode = "DecodeLazy" THEN NewRLP(<<>>) ELSE heap0[dstId]

\* C18: Lazy raw decode (DecodeLazy / RLP.DecodeRLP): it succeeds exactly
\* when the top-level prefix decodes and len(data) >= prefixLen+dataLen,
\* whatever the bytes of the payload are; on success the view is
\* data[0 : prefixLen+dataLen] and n = prefixLen+dataLen with
\* 1 <= n <= len(data); on failure n is 0 and the view is as before the call.
C18_LazyDecode ==
    (Called("DecodeLazy") \/ Called("DecodeRLP"))
    => LET p == decodePrefix(input)
           totalLen == Add64(p.dataLen, p.prefixLen)
           fits == p.err = NoErr /\ ~IntLess(Len(input), totalLen)
       IN  /\ ret.err = NoErr <=> fits
           /\ fits => /\ ret.n = ToInt(totalLen)
                       /\ 1 <= ret.n /\ ret.n <= Len(input)
                       /\ heap[dstId].kind = "RLP"
                       /\ Content(heap[dstId], input) = Slice(input, 0, ret.n)
           /\ ~fits => /\ ret.n = 0
                        /\ heap[dstId] = ViewBefore

C18_Witness ==
    /\ Called("DecodeLazy") /\ input = << 194, 5, 184 >>
    /\ RLPList(input).err # NoErr
    /\ ret.err = NoErr /\ ret.n = 3
    /\ Content(heap[dstId], input) = << 194, 5, 184 >>

\* the value a projection produced, read now and read as it was when the
\* call returned (wire is the buffer as it was then)
ValueNow == ToTree(heap, input, dstId)
ValueThen == ToTree(heap, wire, dstId)

\* C19: Materialized byte strings are owned copies: after a string item is
\* decoded into a Bytes value (Bytes.DecodeRLP or RLP.Bytes()), a later
\* write to the input buffer leaves the decoded Bytes value unchanged.
C19_BytesOwned ==
    (pc = "written" /\ mode = "Bytes") => ValueNow = ValueThen

\* what call p gives when it runs alone on the buffer and the heap as they
\* were before either call
Alone(p) == DecodeRLP(heap0, pc[p].dst, SliceFrom(wire, pc[p].off), pc[p].off)

HelperCalled(name) == pc = "returned" /\ mode = name

\* the shortest big-endian bytes of a uint64: its eight bytes without the
\* leading zero bytes (none for 0)
ShortestBE(w) == StripZeros(w)

\* a length below 2^56
Below2To56(w) == w[1] = 0

\* C21: encodePrefix(length, family) with base 0x80 for String and 0xC0 for
\* List: for length <= 55 it returns the single byte base+length; for
\* 55 < length < 2^56 it returns the byte base+55+n followed by the n-byte
\* minimal big-endian encoding of length, n in 1..7 being its byte width; a
\* 55-byte payload uses the short form, a 56-byte payload the long form
\* with n = 1.
C21_PrefixForms ==
    (HelperCalled("encodePrefix") /\ Below2To56(wire))
    => LET n == Len(ShortestBE(wire)) IN
       /\ ret.err = NoErr
       /\ LeqByte(wire, 55) => ret.out = << srcId + wire[8] >>
       /\ ~LeqByte(wire, 55)
          => /\ n \in 1..7
             /\ ret.out = << srcId + 55 + n >> \o ShortestBE(wire)
       /\ wire = U64(55) => ret.out = << srcId + 55 >>
       /\ wire = U64(56) => ret.out = << srcId + 56, 56 >>

C21_Witness ==
    /\ HelperCalled("encodePrefix") /\ srcId = listOffset
    /\ wire = << 0, 255, 255, 255, 255, 255, 255, 255 >>
    /\ ret.err = NoErr
    /\ ret.out = << 254, 255, 255, 255, 255, 255, 255, 255 >>

\* C22: encodePrefix(length, family) fails with ErrTooLarge and returns no
\* bytes for every length whose minimal big-endian encoding needs 8 bytes
\* (length >= 2^56); it returns this error rather than writing outside its
\* prefix buffer or aborting.
C22_TooLargeReturned ==
    (HelperCalled("encodePrefix") /\ ~Below2To56(wire))
    => /\ ret.err = ErrTooLarge
       /\ ret.out = <<>>

\* the uint64 whose big-endian bytes are bs (at most 8 of them)
BigEndian(bs) == Rep(8 - Len(bs), 0) \o bs

\* what decodePrefix is to return for a long form of n length bytes
LongHeader(family, n) ==
    IF Len(input) - 1 < n
    THEN ret.err = ErrUnexpectedEndOfData
    ELSE /\ ret.err = NoErr
         /\ ret.offset = family
         /\ ret.dataLen = BigEndian(Slice(input, 1, 1 + n))
         /\ ret.prefixLen = 1 + n

ShortHeader(family, dataLen, prefixLen) ==
    /\ ret.err = NoErr
    /\ ret.offset = family
    /\ ret.dataLen = U64(dataLen)
    /\ ret.prefixLen = prefixLen

\* C23: decodePrefix maps the first byte c of a non-empty buffer to (family,
\* dataLen, prefixLen): c <= 0x7F -> (String, 1, 0); 0x80..0xB7 -> (String,
\* c-0x80, 1); 0xB8..0xBE -> (String, value of the next n = c-0xB7 bytes,
\* 1+n); 0xC0..0xF7 -> (List, c-0xC0, 1); 0xF8..0xFE -> (List, value of the
\* next n = c-0xF7 bytes, 1+n); it fails with ErrUnexpectedEndOfData on an
\* empty buffer or when fewer than n length bytes follow, and succeeds
\* whether or not the dataLen payload bytes are present.
C23_PrefixMapping ==
    HelperCalled("decodePrefix")
    => IF Len(input) = 0 THEN ret.err = ErrUnexpectedEndOfData
       ELSE LET c == input[1] IN
            /\ c <= 127 => ShortHeader(stringOffset, 1, 0)
            /\ (128 <= c /\ c <= 183) => ShortHeader(stringOffset, c - 128, 1)
            /\ (184 <= c /\ c <= 190) => LongHeader(stringOffset, c - 183)
            /\ (192 <= c /\ c <= 247) => ShortHeader(listOffset, c - 192, 1)
            /\ (248 <= c /\ c <= 254) => LongHeader(listOffset, c - 247)

C23_Witness ==
    /\ HelperCalled("decodePrefix")
    /\ input = << 190, 255, 255, 255, 255, 255, 255, 255 >>
    /\ ret.err = NoErr /\ ret.offset = stringOffset /\ ret.prefixLen = 8
    /\ ret.dataLen = << 0, 255, 255, 255, 255, 255, 255, 255 >>

\* C24: decodePrefix fails with ErrTooLarge whenever the first byte declares
\* a length of length n >= 8 (first byte 0xBF or 0xFF), for every buffer that
\* starts with that byte: whether 0, fewer than 8, or at least 8 bytes follow.
C24_TooLargeAlways ==
    (HelperCalled("decodePrefix") /\ Len(input) > 0 /\ input[1] \in {191, 255})
    => ret.err = ErrTooLarge

\* the header of the input and the end of the span it declares
InHeader == decodePrefix(input)
InTotal == ToInt(Add64(InHeader.dataLen, InHeader.prefixLen))
FramedList ==
    /\ Len(input) > 0
    /\ InHeader.err = NoErr /\ InHeader.offset = listOffset
    /\ IsSmall(Add64(InHeader.dataLen, InHeader.prefixLen))
    /\ InTotal <= Len(input)

\* the children of the input list by the spans their headers declare,
\* read from the whole buffer: the walk ends at the end of the parent's
\* span, at a header that cannot be read, or after a child whose span ends
\* beyond the parent's
RECURSIVE ChildSpans(_)
ChildSpans(pos) ==
    IF pos >= InTotal THEN <<>>
    ELSE LET h == decodePrefix(SliceFrom(input, pos))
             span == Add64(h.dataLen, h.prefixLen)
         IN  IF h.err # NoErr \/ ~IsSmall(span) \/ span = Zero64 THEN <<>>
             ELSE IF pos + ToInt(span) > InTotal THEN << << pos, pos + ToInt(span) >> >>
             ELSE << << pos, pos + ToInt(span) >> >> \o ChildSpans(pos + ToInt(span))

Children == ChildSpans(InHeader.prefixLen)

\* the error of the decoder of slot i (a slot of the destination, or an item
\* of the factory) given the bytes b
ChildErr(i, b) ==
    IF i <= Len(Slots0)
    THEN DecodeRLP(heap0, Slots0[i], b, 0).err
    ELSE DecodeRLP(Append(heap0, ZeroOf(heap0[dstId].elem)), Len(heap0) + 1, b, 0).err

Overruns(i) == Children[i][2] > InTotal

\* C25: Child decodes are confined to the parent's payload window: the list
\* decode reads nothing beyond the parent's declared span, and a child whose
\* declared span exceeds the remaining parent payload makes the list decode
\* fail with ErrUnexpectedEndOfData, even when the outer buffer holds enough
\* bytes after the parent's span (0xC1 0x82 'a' 'b').
C25_ChildConfined ==
    (Decoded /\ IsListKind(DstTree0.kind) /\ FramedList)
    => /\ LET d == DecodeRLP(heap0, dstId, Slice(input, 0, InTotal), 0) IN
            /\ ret.err = d.err /\ ret.n = d.n /\ heap = d.heap
       /\ \A i \in 1..Len(Children) :
            ( /\ Overruns(i)
              /\ \A j \in 1..(i - 1) :
                    ChildErr(j, Slice(input, Children[j][1], Children[j][2])) = NoErr
              /\ ChildErr(i, SliceFrom(input, Children[i][1]))
                    \in {NoErr, ErrUnexpectedEndOfData} )
            => ret.err = ErrUnexpectedEndOfData

C25_Witness ==
    /\ Decoded /\ input = << 193, 130, 97, 98 >>
    /\ DstTree0 = NewList(<< OldString >>)
    /\ Children = << << 1, 4 >> >> /\ ChildErr(1, << 130, 97, 98 >>) = NoErr
    /\ ret.err = ErrUnexpectedEndOfData /\ ret.n = 0 /\ DstTree = DstTree0

\* the type of the item the next round of the loop of call p decodes into:
\* that of slot n of the destination, or of the factory's new item
ItemKind(p) ==
    IF pc[p].n < Len(heap[pc[p].dst].items)
    THEN heap[heap[pc[p].dst].items[pc[p].n + 1]].kind
    ELSE ZeroOf(heap[pc[p].dst].elem).kind

\* call p is in the loop of decodeTypedList and takes the next step
LoopStep(p) == pc[p].at = "loop" /\ pc'[p] # pc[p]

\* the step ends call p with an error returned to the caller
ReturnsError(p) ==
    /\ pc'[p].at = "done"
    /\ ret'[p].err \notin {NoErr, Panic, PanicSlice}
    /\ ret'[p].n = 0

\* the step leaves call p in the loop with a shorter rest of the payload
Shortens(p) ==
    /\ pc'[p].at = "loop"
    /\ pc'[p].hi = pc[p].hi
    /\ pc[p].lo < pc'[p].lo /\ pc'[p].lo <= pc[p].hi

\* C26: List decode always terminates and makes progress: every round of
\* the loop either returns an error or shortens the remaining payload by at
\* least one byte; a per-item DecodeRLP that reports 0 bytes, or more bytes
\* than remain, makes the list decode return ErrUnexpectedEndOfData, for
\* slots of the destination and for items of the factory alike.
C26_ProgressOrError ==
    [][\A p \in {1, 2} :
         (LoopStep(p) /\ pc[p].lo < pc[p].hi)
         => /\ ReturnsError(p) \/ Shortens(p)
            /\ ItemKind(p) \in {"SaysZero", "SaysOver"}
                 => /\ pc'[p].at = "done"
                    /\ ret'[p].err = ErrUnexpectedEndOfData]_vars

\* C27: Integer decode does not enforce canonical form: for every
\* well-formed string item with a payload of 1 to 8 bytes, decoding into Uint
\* succeeds and yields the big-endian value of the payload, even when the
\* payload starts with zero bytes (0x00 decodes to 0), although encodeUint
\* never produces such input.
C27_NonCanonicalUint ==
    (Decoded /\ mode \in {"exact", "extra"} /\ SrcTree.kind \in {"Bytes", "String"}
             /\ Len(SrcTree.b) \in 1..8 /\ DstTree0.kind = "Uint")
    => /\ ret.err = NoErr
       /\ DstTree.u = BigEndian(SrcTree.b)
       /\ ret.n = Len(wire)
       /\ SrcTree.b[1] = 0 => \A w \in UintVals : encodeUint(w).out # wire

C27_Witness ==
    /\ Decoded /\ mode = "exact" /\ SrcTree = NewBytes(<< 0, 97 >>)
    /\ wire = << 130, 0, 97 >> /\ DstTree0 = OldUint
    /\ ret.err = NoErr /\ ret.n = 3 /\ DstTree = NewUint(U64(97))

\* DecodeLazy(Encode(v)): the raw view of the encoding
LazyOfWire == DecodeRLP(<< NewRLP(<<>>) >>, 1, wire, 0)

WellFormedOutput ==
    /\ LazyOfWire.err = NoErr
    /\ LazyOfWire.n = Len(wire)
    /\ IsListKind(SrcTree.kind) => Length(wire) = U64(Len(SrcTree.items))

\* C28 (as stated): for every value v on which Encode succeeds, raw views
\* included, DecodeLazy(Encode(v)) succeeds and consumes len(Encode(v))
\* bytes, and when v is a list the Length() of the view is the number of
\* elements of v.
C28_AlwaysWellFormed ==
    (pc = "encoded" /\ werr = NoErr) => WellFormedOutput

\* C28 (amended): the same, for every value all of whose raw views hold
\* exactly one complete item.
C28_WellFormedWholeViews ==
    (pc = "encoded" /\ werr = NoErr /\ ViewsWhole(SrcTree)) => WellFormedOutput

C28_Witness ==
    /\ pc = "encoded" /\ werr = NoErr
    /\ SrcTree = NewList(<< NewRLP(<< 194, 5, 128 >>), NewString(<< 97 >>) >>)
    /\ wire = << 196, 194, 5, 128, 97 >>
    /\ LazyOfWire.err = NoErr /\ LazyOfWire.n = 5 /\ Length(wire) = U64(2)

\* the decoded value encoded again, against the bytes the decode consumed
ReEncoded == EncodeRLP(heap, input, dstId)
IdentityOnConsumed ==
    /\ ReEncoded.err = NoErr
    /\ ReEncoded.out = Slice(input, 0, ret.n)

\* the header of b is the one the encoder writes for its family and payload:
\* the shortest prefix form, and no prefix on a single byte below 0x80
CanonicalHeader(b) ==
    LET p == decodePrefix(b) IN
    \/ p.prefixLen = 0
    \/ /\ Slice(b, 0, p.prefixLen) = encodePrefix(p.dataLen, p.offset).out
       /\ ~(p.offset = stringOffset /\ p.dataLen = U64(1) /\ b[2] < stringOffset)

\* C29 (as stated): for every input b that decodes into an empty List
\* destination consuming n bytes, encoding the resulting list of raw views
\* again returns b[0:n]; likewise for every b that decodes into Bytes,
\* encodeBytes of the decoded value returns b[0:n].
C29_DecodeEncodeIdentity ==
    ((Called("List") \/ Called("Bytes")) /\ ret.err = NoErr) => IdentityOnConsumed

\* C29 (amended): the same, for every input whose own header is canonical.
C29_IdentityOnCanonical ==
    ((Called("List") \/ Called("Bytes")) /\ ret.err = NoErr /\ CanonicalHeader(input))
    => IdentityOnConsumed

C29_Witness ==
    /\ Called("List") /\ ret.err = NoErr /\ ret.n = 6
    /\ input = << 197, 130, 97, 98, 193, 5 >>
    /\ CanonicalHeader(input)
    /\ ListItems = << << 130, 97, 98 >>, << 193, 5 >> >>
    /\ ReEncoded.out = input

\* the bytes writeInt has written: b[0:n]
Written == Slice(ret.b, 0, ret.n)

\* C30 (as stated): writeInt returns, for every v, the shortest big-endian
\* byte sequence representing v with no leading zero byte, of 0 to 8 bytes;
\* for v = 0 it yields a zero-length sequence (0 bytes written).
C30_MinimalBigEndian ==
    HelperCalled("writeInt")
    => /\ ~ret.panic
       /\ ret.n \in 0..8
       /\ BigEndian(Written) = wire
       /\ Len(Written) > 0 => Written[1] # 0
       /\ wire = Zero64 => ret.n = 0

\* C30 (amended): for every v >= 1 writeInt writes the shortest big-endian
\* byte sequence representing v, of 1 to 8 bytes with no leading zero byte;
\* for v = 0 it writes the one byte 0x00 and returns 1.
C30_MinimalFromOne ==
    HelperCalled("writeInt")
    => /\ ~ret.panic
       /\ ret.n \in 1..8
       /\ BigEndian(Written) = wire
       /\ wire # Zero64 => Written[1] # 0
       /\ wire = Zero64 => Written = << 0 >>

C30_Witness ==
    /\ HelperCalled("writeInt")
    /\ wire = << 0, 0, 0, 0, 0, 0, 1, 0 >>
    /\ ret.n = 2 /\ Written = << 1, 0 >> /\ ~ret.panic

====
